---------------------------- MODULE Spec2Model ----------------------------
(***************************************************************************)
(* Model of homework.py: the fitness tracker module.                       *)
(*                                                                         *)
(* The module is either run as a script (the driver loop over a list of    *)
(* packages) or imported and its classes and functions called directly.    *)
(*                                                                         *)
(* Numbers.  A Python int is modelled as an integer and a Python float as  *)
(* an IEEE 754 binary64 value: sign, 53-bit significand and exponent, with *)
(* every operation rounded to the nearest float, ties to even, as CPython  *)
(* does on the usual hardware.  So 0.65 is the float nearest to 65/100,    *)
(* 1 // 0.1 is 9.0, and '{:.3f}' renders the binary value of a float.     *)
(* Two operations are not correctly rounded.  x // y is computed as        *)
(* CPython does, from fmod(x, y) in rounded steps, so that for a quotient  *)
(* of 2^51 or more it can differ from the floor of the exact quotient.     *)
(* x ** 2 is the C library's pow: its result is the nearest float or, when *)
(* the exact square is close to the middle of two floats, possibly the     *)
(* other of the two; the model takes either.  The exponent is not bounded: *)
(* infinities, NaN, subnormal numbers and OverflowError are left out, and  *)
(* so are ints beyond 32 bits.                                             *)
(*                                                                         *)
(* Exceptions.  A call returns Return(v) or Raise(e, arg); a caller passes *)
(* on the first exception of the calls it makes, in evaluation order.      *)
(***************************************************************************)
EXTENDS Integers, Sequences, FiniteSets, TLC

VARIABLES
    name,       \* __name__: "__main__" (run as a script) or "homework" (imported)
    packages,   \* the driver's list of (workout_type, data) records
    i,          \* 1-based position of the for loop in packages
    pc,         \* control position
    training,   \* the last object constructed (the driver's `training`)
    package,    \* the (workout_type, data) last passed to read_package or a class
    origin,     \* the call last made to construct: "read_package" or "direct"
    ret,        \* the last direct method call and its result
    output,     \* the lines printed to standard output, in order
    exc         \* the uncaught exception, if any, and the call that raised it

vars == <<name, packages, i, pc, training, package, origin, ret, output, exc>>

----------------------------------------------------------------------------
(* Natural numbers of any size, for the 53-bit significands of binary64.   *)
(* A natural is the sequence of its digits in base 2^14, lowest first,     *)
(* without leading zero digits; <<>> is 0.                                 *)

Base == 16384
LimbBits == 14

Min(p, q) == IF p < q THEN p ELSE q
Max(p, q) == IF p > q THEN p ELSE q
Abs(k) == IF k < 0 THEN -k ELSE k

Limb(a, k) == IF k >= 1 /\ k <= Len(a) THEN a[k] ELSE 0

RECURSIVE Trim(_)
Trim(a) ==
    IF Len(a) > 0 /\ a[Len(a)] = 0 THEN Trim(SubSeq(a, 1, Len(a) - 1)) ELSE a

RECURSIVE FromNat(_)
FromNat(n) == IF n = 0 THEN <<>> ELSE <<n % Base>> \o FromNat(n \div Base)

RECURSIVE AddFrom(_, _, _, _)
AddStep(a, b, k, s) == <<s % Base>> \o AddFrom(a, b, k + 1, s \div Base)
AddFrom(a, b, k, c) ==
    IF k > Len(a) /\ k > Len(b) THEN FromNat(c)
    ELSE AddStep(a, b, k, Limb(a, k) + Limb(b, k) + c)
BAdd(a, b) == AddFrom(a, b, 1, 0)

\* a - b for a >= b
RECURSIVE SubFrom(_, _, _, _)
SubStep(a, b, k, s) ==
    <<(s + Base) % Base>> \o SubFrom(a, b, k + 1, IF s < 0 THEN 1 ELSE 0)
SubFrom(a, b, k, c) ==
    IF k > Len(a) THEN <<>> ELSE SubStep(a, b, k, a[k] - Limb(b, k) - c)
BSub(a, b) == Trim(SubFrom(a, b, 1, 0))

\* -1, 0 or 1 as a < b, a = b or a > b
RECURSIVE CmpFrom(_, _, _)
CmpFrom(a, b, k) ==
    IF k = 0 THEN 0
    ELSE IF Limb(a, k) < Limb(b, k) THEN -1
    ELSE IF Limb(a, k) > Limb(b, k) THEN 1
    ELSE CmpFrom(a, b, k - 1)
BCmp(a, b) == CmpFrom(a, b, Max(Len(a), Len(b)))

\* a * d for a digit d
RECURSIVE MulSmallFrom(_, _, _, _)
MulSmallStep(a, d, k, s) ==
    <<s % Base>> \o MulSmallFrom(a, d, k + 1, s \div Base)
MulSmallFrom(a, d, k, c) ==
    IF k > Len(a) THEN FromNat(c) ELSE MulSmallStep(a, d, k, a[k] * d + c)
BMulSmall(a, d) == Trim(MulSmallFrom(a, d, 1, 0))

\* a * b for a of at most four digits (a significand)
RECURSIVE Column(_, _, _, _)
Column(a, b, k, j) ==
    IF j > Len(a) THEN 0
    ELSE a[j] * Limb(b, k + 1 - j) + Column(a, b, k, j + 1)
RECURSIVE MulFrom(_, _, _, _)
MulStep(a, b, k, s) == <<s % Base>> \o MulFrom(a, b, k + 1, s \div Base)
MulFrom(a, b, k, c) ==
    IF k > Len(a) + Len(b) - 1 THEN FromNat(c)
    ELSE MulStep(a, b, k, Column(a, b, k, 1) + c)
BMul(a, b) ==
    IF a = <<>> \/ b = <<>> THEN <<>> ELSE Trim(MulFrom(a, b, 1, 0))

\* a * 2^n
BShl(a, n) ==
    IF a = <<>> THEN <<>>
    ELSE [k \in 1..(n \div LimbBits) |-> 0] \o BMulSmall(a, 2 ^ (n % LimbBits))

\* floor(a / 2^n)
ShrBits(a, r) ==
    [k \in 1..Len(a) |->
        (a[k] \div 2 ^ r) + (Limb(a, k + 1) % 2 ^ r) * 2 ^ (LimbBits - r)]
BShr(a, n) ==
    IF n \div LimbBits >= Len(a) THEN <<>>
    ELSE Trim(ShrBits(SubSeq(a, n \div LimbBits + 1, Len(a)), n % LimbBits))

RECURSIVE NatBits(_)
NatBits(n) == IF n = 0 THEN 0 ELSE 1 + NatBits(n \div 2)
\* the number of binary digits of a
BitLen(a) ==
    IF a = <<>> THEN 0 ELSE (Len(a) - 1) * LimbBits + NatBits(a[Len(a)])
\* binary digit n of a, digit 0 being the lowest
Bit(a, n) == (Limb(a, n \div LimbBits + 1) \div 2 ^ (n % LimbBits)) % 2
\* a is a multiple of 2^n
LowZero(a, n) ==
    /\ \A k \in 1..(n \div LimbBits) : Limb(a, k) = 0
    /\ Limb(a, n \div LimbBits + 1) % 2 ^ (n % LimbBits) = 0

\* Long division u / v for v # 0, as <<quotient, remainder>>.  v is scaled
\* so that its top digit is at least Base / 2; the digit guessed from the
\* top digits is then at most 2 too large.
RECURSIVE DigitOf(_, _, _)
DigitOf(rem, v, q) ==
    IF BCmp(BMulSmall(v, q), rem) > 0 THEN DigitOf(rem, v, q - 1) ELSE q
QHat(rem, v) ==
    Min((Limb(rem, Len(v) + 1) * Base + Limb(rem, Len(v))) \div v[Len(v)],
        Base - 1)
\* The digits k and below of u are still to be divided; rem is what is left
\* of the digits above them and q holds their quotient digits.
RECURSIVE DivFrom(_, _, _, _, _)
DivPut(u, v, k, rem, q, d) ==
    IF d = 0 THEN DivFrom(u, v, k - 1, rem, <<0>> \o q)
    ELSE DivFrom(u, v, k - 1, BSub(rem, BMulSmall(v, d)), <<d>> \o q)
DivStep(u, v, k, rem, q) ==
    DivPut(u, v, k, rem, q, DigitOf(rem, v, QHat(rem, v)))
DivFrom(u, v, k, rem, q) ==
    IF k = 0 THEN <<q, rem>>
    ELSE DivStep(u, v, k, Trim(<<u[k]>> \o rem), q)
DivScaled(u, v) == DivFrom(u, v, Len(u), <<>>, <<>>)
DivUnscale(qr, s) == <<Trim(qr[1]), BShr(qr[2], s)>>
DivBy(u, v, s) == DivUnscale(DivScaled(BShl(u, s), BShl(v, s)), s)
BDivMod(u, v) == DivBy(u, v, LimbBits - NatBits(v[Len(v)]))

----------------------------------------------------------------------------
(* Python's float: IEEE 754 binary64, every operation rounded to nearest,  *)
(* ties to even.  A float is its sign s (1 for negative), and m and e with *)
(* absolute value m * 2^e, where 2^52 <= m < 2^53, or m = 0 for the zeros. *)

Precision == 53

Float(s, e, m) == [t |-> "float", s |-> s, e |-> e, m |-> m]
Zero(s) == Float(s, 0, <<>>)

\* The nearest float is above n / 2^sh (sh > 0) cut to its whole part.
RoundsUp(n, sh) ==
    Bit(n, sh - 1) = 1 /\ (~LowZero(n, sh - 1) \/ Bit(n, sh) = 1)
Carry(s, e, q) ==
    IF BitLen(q) > Precision THEN Float(s, e + 1, BShr(q, 1))
    ELSE Float(s, e, q)
\* n / 2^sh rounded to the nearest whole number, ties to even
RoundedShift(n, sh) ==
    IF RoundsUp(n, sh) THEN BAdd(BShr(n, sh), <<1>>) ELSE BShr(n, sh)
RoundShift(s, n, e, sh) == Carry(s, e + sh, RoundedShift(n, sh))
RoundLen(s, n, e, len) ==
    IF len = 0 THEN Zero(s)
    ELSE IF len <= Precision
    THEN Float(s, e - (Precision - len), BShl(n, Precision - len))
    ELSE RoundShift(s, n, e, len - Precision)
\* The float nearest to n * 2^e, with sign s.
Round(s, n, e) == RoundLen(s, n, e, BitLen(n))

Xor(s, t) == (s + t) % 2

\* float(k) for an int k
FromInt(k) == Round(IF k < 0 THEN 1 ELSE 0, FromNat(Abs(k)), 0)

float_mul(x, y) == Round(Xor(x.s, y.s), BMul(x.m, y.m), x.e + y.e)

\* x / y for y # 0: 57 or 58 binary digits of the quotient, and one more
\* digit that is 1 when the division left a remainder.
Sticky(qr) ==
    IF qr[2] = <<>> THEN BShl(qr[1], 1) ELSE BAdd(BShl(qr[1], 1), <<1>>)
float_div(x, y) ==
    IF x.m = <<>> THEN Zero(Xor(x.s, y.s))
    ELSE Round(Xor(x.s, y.s), Sticky(BDivMod(BShl(x.m, 57), y.m)),
               x.e - y.e - 58)

\* x + y.  An operand below 2^-58 of the other does not change it.
AddMagnitudes(s, a, t, b, e) ==
    IF s = t THEN Round(s, BAdd(a, b), e)
    ELSE IF BCmp(a, b) = 0 THEN Zero(0)
    ELSE IF BCmp(a, b) > 0 THEN Round(s, BSub(a, b), e)
    ELSE Round(t, BSub(b, a), e)
float_add(x, y) ==
    IF x.m = <<>> /\ y.m = <<>> THEN Zero(x.s * y.s)
    ELSE IF y.m = <<>> THEN x
    ELSE IF x.m = <<>> THEN y
    ELSE IF x.e - y.e > 58 THEN x
    ELSE IF y.e - x.e > 58 THEN y
    ELSE IF x.e >= y.e
    THEN AddMagnitudes(x.s, BShl(x.m, x.e - y.e), y.s, y.m, y.e)
    ELSE AddMagnitudes(x.s, x.m, y.s, BShl(y.m, y.e - x.e), x.e)

float_neg(x) == Float(1 - x.s, x.e, x.m)
float_sub(x, y) == float_add(x, float_neg(y))

\* x < y
MagLess(x, y) ==
    IF x.m = <<>> THEN y.m # <<>>
    ELSE y.m # <<>> /\ (x.e < y.e \/ (x.e = y.e /\ BCmp(x.m, y.m) < 0))
float_lt(x, y) ==
    IF x.s = 1 /\ x.m # <<>>
    THEN (y.s = 0 \/ y.m = <<>>) \/ MagLess(y, x)
    ELSE (y.s = 0 /\ y.m # <<>>) /\ MagLess(x, y)

\* 2^k mod v for v # 0, by repeated squaring
RECURSIVE PowMod(_, _)
SquareMod(h, odd, v) ==
    IF h = <<>> THEN <<>> ELSE BDivMod(BMulSmall(BMul(h, h), 1 + odd), v)[2]
PowMod(k, v) ==
    IF k = 0 THEN BDivMod(<<1>>, v)[2]
    ELSE SquareMod(PowMod(k \div 2, v), k % 2, v)

\* fmod(x, y) of the C library for y # 0: x - n * y for the whole number n
\* that is x / y cut towards zero.  The result is exact and has the sign of
\* x.  ModMagnitude is its absolute value, as <<r, e>> for r * 2^e.
MulMod(a, p, v) == IF p = <<>> THEN <<>> ELSE BDivMod(BMul(a, p), v)[2]
ModMagnitude(x, y) ==
    IF x.e >= y.e THEN <<MulMod(x.m, PowMod(x.e - y.e, y.m), y.m), y.e>>
    ELSE IF y.e - x.e >= Precision THEN <<x.m, x.e>>
    ELSE <<BDivMod(x.m, BShl(y.m, y.e - x.e))[2], x.e>>
RoundPair(s, re) == Round(s, re[1], re[2])
fmod(x, y) == RoundPair(x.s, ModMagnitude(x, y))

\* floor(x) of the C library: the largest whole number not above x
floor(x) ==
    IF x.m = <<>> \/ x.e >= 0 THEN x
    ELSE IF -x.e >= Precision THEN (IF x.s = 0 THEN Zero(0) ELSE FromInt(-1))
    ELSE IF x.s = 0 \/ LowZero(x.m, -x.e) THEN Round(x.s, BShr(x.m, -x.e), 0)
    ELSE Round(1, BAdd(BShr(x.m, -x.e), <<1>>), 0)

\* x // y for y # 0, as CPython computes it (float_floor_div, that is
\* _float_div_mod, of floatobject.c):
\*     mod = fmod(x, y); div = (x - mod) / y
\*     if mod and (y < 0) != (mod < 0): div -= 1.0
\*     if div: floordiv = floor(div); if div - floordiv > 0.5: floordiv += 1.0
\*     else: floordiv = a zero with the sign of x / y
\* x - mod, the division and div - 1.0 are rounded, so that for a quotient
\* of 2^51 or more the result can differ from the floor of the exact
\* quotient.
Quotient(x, y, mod) == float_div(float_sub(x, mod), y)
Snap(div, floordiv) ==
    IF float_lt(float_div(FromInt(1), FromInt(2)), float_sub(div, floordiv))
    THEN float_add(floordiv, FromInt(1))
    ELSE floordiv
SnapQuotient(x, y, div) ==
    IF div.m = <<>> THEN Zero(Xor(x.s, y.s)) ELSE Snap(div, floor(div))
FloorDivOf(x, y, mod) ==
    IF mod.m # <<>> /\ y.s # mod.s
    THEN SnapQuotient(x, y, float_sub(Quotient(x, y, mod), FromInt(1)))
    ELSE SnapQuotient(x, y, Quotient(x, y, mod))
float_floor_div(x, y) == FloorDivOf(x, y, fmod(x, y))


\* x ** 2 is pow(x, 2.0) of the C library, which is accurate to about half
\* a unit in the last place but not always the nearest float.  When the
\* exact square lies within 1/16 of a unit in the last place of the middle
\* of two floats, the library may return either of them: "nearest" is the
\* nearest float and "other" is the other one.
PowRoundings == {"nearest", "other"}
NearTie(n, sh) == Limb(BShr(n, sh - 4), 1) % 16 \in {7, 8}
RoundOther(s, n, e, sh) ==
    Carry(s, e + sh,
          IF RoundsUp(n, sh) THEN BShr(n, sh) ELSE BAdd(BShr(n, sh), <<1>>))
SquareOf(n, e, libm) ==
    IF libm = "other" /\ NearTie(n, BitLen(n) - Precision)
    THEN RoundOther(0, n, e, BitLen(n) - Precision)
    ELSE Round(0, n, e)
float_pow(x, libm) ==
    IF x.m = <<>> THEN Zero(0) ELSE SquareOf(BMul(x.m, x.m), 2 * x.e, libm)

----------------------------------------------------------------------------
(* Python numbers and their operators.  An int k is int(k); the operators  *)
(* compute in ints when both operands are ints and in floats otherwise.    *)

int(k) == [t |-> "int", v |-> k]
IsInt(x) == x.t = "int"
\* float(x)
float(x) == IF IsInt(x) THEN FromInt(x.v) ELSE x
\* The float a literal denotes: the one nearest to the decimal n / d.
FloatLiteral(n, d) == float_div(FromInt(n), FromInt(d))

\* x == 0
IsZero(x) == IF IsInt(x) THEN x.v = 0 ELSE x.m = <<>>

\* a * b, a + b, a - b
Mul(a, b) ==
    IF IsInt(a) /\ IsInt(b) THEN int(a.v * b.v)
    ELSE float_mul(float(a), float(b))
Add(a, b) ==
    IF IsInt(a) /\ IsInt(b) THEN int(a.v + b.v)
    ELSE float_add(float(a), float(b))
Sub(a, b) ==
    IF IsInt(a) /\ IsInt(b) THEN int(a.v - b.v)
    ELSE float_sub(float(a), float(b))
\* a / b for b # 0 (the callers raise ZeroDivisionError before dividing by 0)
TrueDiv(a, b) == float_div(float(a), float(b))
\* a // b for a float a and b # 0
FloorDiv(a, b) == float_floor_div(a, float(b))
\* a ** 2
Pow(a, libm) == IF IsInt(a) THEN int(a.v * a.v) ELSE float_pow(a, libm)

----------------------------------------------------------------------------
(* Results of calls *)

Return(v) == [exc |-> "none", arg |-> "", val |-> v]
Raise(e, a) == [exc |-> e, arg |-> a]
Raised(r) == r.exc # "none"

----------------------------------------------------------------------------
(* InfoMessage *)

InfoMessage(training_type, duration, distance, speed, calories) ==
    [training_type |-> training_type, duration |-> duration,
     distance |-> distance, speed |-> speed, calories |-> calories]

Digit(k) == SubSeq("0123456789", k + 1, k + 1)

\* Three decimal digits of a number of thousandths 0 <= f < 1000.
Decimals(f) ==
    Digit(f \div 100) \o Digit((f \div 10) % 10) \o Digit(f % 10)

\* The decimal digits of a natural a > 0.
RECURSIVE DecimalOf(_)
DecimalDigits(qr) == DecimalOf(qr[1]) \o Digit(Limb(qr[2], 1))
DecimalOf(a) == IF a = <<>> THEN "" ELSE DecimalDigits(BDivMod(a, <<10>>))

\* The absolute value of a float in thousandths, rounded to the nearest
\* whole number of them, ties to even.
Thousandths(x) ==
    IF x.m = <<>> THEN <<>>
    ELSE IF x.e >= 0 THEN BShl(BMulSmall(x.m, 1000), x.e)
    ELSE IF -x.e > 64 THEN <<>>
    ELSE RoundedShift(BMulSmall(x.m, 1000), -x.e)

\* sign, whole part, point and three decimals; qr is the number of
\* thousandths divided by 1000
FixedPoint(s, qr) ==
    (IF s = 1 THEN "-" ELSE "")
        \o (IF qr[1] = <<>> THEN "0" ELSE DecimalOf(qr[1]))
        \o "." \o Decimals(Limb(qr[2], 1))

\* '{:.3f}'.format(x): the exact binary value of float(x) rounded to three
\* decimals, ties to even, with the sign of x kept, as in '-0.001' and, for
\* -0.0 or a negative value that rounds to zero, '-0.000'.
Format3(x) ==
    FixedPoint(float(x).s, BDivMod(Thousandths(float(x)), <<1000>>))

\* InfoMessage.get_message: TEXT_MESSAGE filled with the five fields.  The
\* message is the sequence of the five rendered fields; the fixed labels of
\* TEXT_MESSAGE between them are left out.
get_message(info) ==
    <<info.training_type, Format3(info.duration), Format3(info.distance),
      Format3(info.speed), Format3(info.calories)>>

----------------------------------------------------------------------------
(* Class constants *)

Training_LEN_STEP == FloatLiteral(65, 100)
Swimming_LEN_STEP == FloatLiteral(138, 100)
M_IN_KM == 1000
M_IN_HOUR == 60
COEFF_CALORIE_RUN_1 == 18
COEFF_CALORIE_RUN_2 == 20
COEFF_CALORIE_WLK_1 == FloatLiteral(35, 1000)
COEFF_CALORIE_WLK_2 == FloatLiteral(29, 1000)
COEFF_CALORIE_SWM_1 == FloatLiteral(11, 10)
COEFF_CALORIE_SWM_2 == 2

\* Mutant: Swimming without its own LEN_STEP.
LEN_STEP_base(self) == Training_LEN_STEP

\* self.LEN_STEP: Swimming overrides the class attribute of Training.
LEN_STEP(self) ==
    IF self.cls = "Swimming" THEN Swimming_LEN_STEP ELSE Training_LEN_STEP

----------------------------------------------------------------------------
(* Constructors.  cls called with data binds the positional arguments; a list of the  *)
(* wrong length is a TypeError of the call.                                *)

Training_init(cls, data) ==
    IF Len(data) # 3 THEN Raise("TypeError", "")
    ELSE Return([cls |-> cls, action |-> data[1], duration |-> data[2],
                 weight |-> data[3]])

SportsWalking_init(cls, data) ==
    IF Len(data) # 4 THEN Raise("TypeError", "")
    ELSE Return([cls |-> cls, action |-> data[1], duration |-> data[2],
                 weight |-> data[3], height |-> data[4]])

Swimming_init(cls, data) ==
    IF Len(data) # 5 THEN Raise("TypeError", "")
    ELSE Return([cls |-> cls, action |-> data[1], duration |-> data[2],
                 weight |-> data[3], length_pool |-> data[4],
                 count_pool |-> data[5]])

\* cls called with data for a class of the module
Construct(cls, data) ==
    CASE cls = "SportsWalking" -> SportsWalking_init(cls, data)
      [] cls = "Swimming" -> Swimming_init(cls, data)
      [] OTHER -> Training_init(cls, data)

----------------------------------------------------------------------------
(* Methods *)

Training_get_distance(self) ==
    Return(TrueDiv(Mul(self.action, LEN_STEP(self)), int(M_IN_KM)))

get_distance(self) == Training_get_distance(self)

\* Mutant: a zero duration gives speed 0 instead of a division by zero.
Training_mean_speed_guarded(self, dist) ==
    IF Raised(dist) THEN dist
    ELSE IF IsZero(self.duration) THEN Return(int(0))
    ELSE Return(TrueDiv(dist.val, self.duration))

\* dist / self.duration, dist being the result of self.get_distance()
Training_mean_speed_of(self, dist) ==
    IF Raised(dist) THEN dist
    ELSE IF IsZero(self.duration) THEN Raise("ZeroDivisionError", "")
    ELSE Return(TrueDiv(dist.val, self.duration))

Training_get_mean_speed(self) ==
    Training_mean_speed_of(self, get_distance(self))

\* Mutant: Swimming without its override of get_mean_speed.
Swimming_get_mean_speed_inherited(self) == Training_get_mean_speed(self)

Swimming_get_mean_speed(self) ==
    IF IsZero(self.duration) THEN Raise("ZeroDivisionError", "")
    ELSE Return(TrueDiv(TrueDiv(Mul(self.length_pool, self.count_pool),
                                int(M_IN_KM)),
                        self.duration))

get_mean_speed(self) ==
    IF self.cls = "Swimming" THEN Swimming_get_mean_speed(self)
    ELSE Training_get_mean_speed(self)

Training_get_spent_calories(self) ==
    Raise("NotImplementedError", "get_spent_calories")

\* Mutant: the two coefficients of Running exchanged.
Running_calories_exchanged(self, speed) ==
    IF Raised(speed) THEN speed
    ELSE Return(Mul(
            TrueDiv(Mul(Sub(Mul(int(COEFF_CALORIE_RUN_2), speed.val),
                            int(COEFF_CALORIE_RUN_1)),
                        self.weight),
                    int(M_IN_KM)),
            Mul(self.duration, int(M_IN_HOUR))))

\* the formula of Running, speed being the result of self.get_mean_speed()
Running_calories_of(self, speed) ==
    IF Raised(speed) THEN speed
    ELSE Return(Mul(
            TrueDiv(Mul(Sub(Mul(int(COEFF_CALORIE_RUN_1), speed.val),
                            int(COEFF_CALORIE_RUN_2)),
                        self.weight),
                    int(M_IN_KM)),
            Mul(self.duration, int(M_IN_HOUR))))

Running_get_spent_calories(self) ==
    Running_calories_of(self, get_mean_speed(self))

\* Mutant: speed ** 2 / height, a true division, in place of the floor
\* division.
SportsWalking_calories_true_division(self, speed, libm) ==
    IF Raised(speed) THEN speed
    ELSE IF IsZero(self.height) THEN Raise("ZeroDivisionError", "")
    ELSE Return(Mul(
            Add(Mul(COEFF_CALORIE_WLK_1, self.weight),
                Mul(Mul(TrueDiv(Pow(speed.val, libm), self.height),
                        COEFF_CALORIE_WLK_2),
                    self.weight)),
            Mul(self.duration, int(M_IN_HOUR))))

\* the formula of SportsWalking, speed being the result of
\* self.get_mean_speed() and libm the way pow rounds
SportsWalking_calories_of(self, speed, libm) ==
    IF Raised(speed) THEN speed
    ELSE IF IsZero(self.height) THEN Raise("ZeroDivisionError", "")
    ELSE Return(Mul(
            Add(Mul(COEFF_CALORIE_WLK_1, self.weight),
                Mul(Mul(FloorDiv(Pow(speed.val, libm), self.height),
                        COEFF_CALORIE_WLK_2),
                    self.weight)),
            Mul(self.duration, int(M_IN_HOUR))))

SportsWalking_get_spent_calories(self, libm) ==
    SportsWalking_calories_of(self, get_mean_speed(self), libm)

\* the formula of Swimming, speed being the result of self.get_mean_speed()
Swimming_calories_of(self, speed) ==
    IF Raised(speed) THEN speed
    ELSE Return(Mul(Mul(Add(speed.val, COEFF_CALORIE_SWM_1),
                        int(COEFF_CALORIE_SWM_2)),
                    self.weight))

Swimming_get_spent_calories(self) ==
    Swimming_calories_of(self, get_mean_speed(self))

\* libm is the way the C library's pow rounds in this call
get_spent_calories(self, libm) ==
    CASE self.cls = "Running" -> Running_get_spent_calories(self)
      [] self.cls = "SportsWalking" ->
            SportsWalking_get_spent_calories(self, libm)
      [] self.cls = "Swimming" -> Swimming_get_spent_calories(self)
      [] OTHER -> Training_get_spent_calories(self)

\* InfoMessage(...) of the results of the three calls; the arguments are
\* evaluated left to right, so the first exception is the one raised.
InfoMessage_of(self, dist, speed, cal) ==
    IF Raised(dist) THEN dist
    ELSE IF Raised(speed) THEN speed
    ELSE IF Raised(cal) THEN cal
    ELSE Return(InfoMessage(self.cls, self.duration, dist.val,
                            speed.val, cal.val))

show_training_info(self, libm) ==
    InfoMessage_of(self, get_distance(self), get_mean_speed(self),
                   get_spent_calories(self, libm))

----------------------------------------------------------------------------
(* Module functions *)

\* Mutant: the codes of Running and SportsWalking exchanged.
supported_workout_types_swapped ==
    [SWM |-> "Swimming", RUN |-> "SportsWalking", WLK |-> "Running"]

\* Mutant: "RUN" mapped to the base class.
supported_workout_types_base ==
    [SWM |-> "Swimming", RUN |-> "Training", WLK |-> "SportsWalking"]

supported_workout_types ==
    [SWM |-> "Swimming", RUN |-> "Running", WLK |-> "SportsWalking"]

\* Mutant: an unknown code falls back to Running instead of raising.
read_package_default(workout_type, data) ==
    IF workout_type \in DOMAIN supported_workout_types
    THEN Construct(supported_workout_types[workout_type], data)
    ELSE Construct("Running", data)

read_package(workout_type, data) ==
    IF workout_type \in DOMAIN supported_workout_types
    THEN Construct(supported_workout_types[workout_type], data)
    ELSE Raise("ValueError", workout_type)

\* Mutant: the new line goes before the lines printed so far.
print_first(out, line) == <<line>> \o out

\* print(line): one more line on standard output
print(out, line) == Append(out, line)

\* print(info.get_message()), info being the result of show_training_info()
main_print(out, info) ==
    IF Raised(info) THEN info ELSE Return(print(out, get_message(info.val)))

\* main(training), with the lines printed so far; returns the lines after it
main(self, out, libm) == main_print(out, show_training_info(self, libm))

----------------------------------------------------------------------------
(* Inputs *)

\* The longest list of packages the driver is given.
MaxPackages == 3

\* packages, as written in the script
SamplePackages ==
    << <<"SWM", <<int(720), int(1), int(80), int(25), int(40)>> >>,
       <<"RUN", <<int(15000), int(1), int(75)>> >>,
       <<"WLK", <<int(9000), int(1), int(75), int(180)>> >> >>

ActionValues == {int(-2000), int(0), int(9000), int(15000)}
DurationValues == {int(0), int(1), FloatLiteral(1, 2), int(3)}
WeightValues == {int(75)}
HeightValues == {int(0), int(3), int(180)}
PoolValues == {<<int(25), int(40)>>, <<int(50), int(0)>>}

RunData ==
    {<<a, d, w>> : a \in ActionValues, d \in DurationValues, w \in WeightValues}
WlkData == {b \o <<h>> : b \in RunData, h \in HeightValues}
SwmData == {b \o p : b \in RunData, p \in PoolValues}

\* The mean speed of 3613 steps in one hour, 2.34845: its exact square is
\* close to the middle of 5.5152174025 and 5.515217402500001, the nearest
\* float and the next one.  TieHeight is the latter, a height that the
\* square reaches only in case pow returns the float that is not the nearest.
TieSpeed == TrueDiv(Mul(int(3613), FloatLiteral(65, 100)), int(1000))
TieHeight == float_pow(TieSpeed, "other")

\* 6000 steps in one hour and the height 15.21: 3.9 ** 2 is
\* 15.209999999999999, just below the height.
SquareBelowHeight ==
    <<"WLK", <<int(6000), int(1), int(75), FloatLiteral(1521, 100)>> >>
\* 1377 steps in 1e-09 hours: the square of the speed divided by the height
\* is above 2^51, where // is not the floor of the exact quotient: it is
\* 4450636125000000.0 and the exact quotient is 4450636125000001.4.
LargeQuotient ==
    <<"WLK", <<int(1377), FloatLiteral(1, 1000000000), int(75), int(180)>> >>

\* Records on which binary rounding decides the result: a square just
\* below the height (the one above, and 26000 steps in 1.3 hours, which
\* give the speed 12.999999999999998), a quotient above 2^51, a square
\* that depends on the rounding of pow, durations that render as 0.003 and
\* 0.001 although their decimals are 0.0025 and 0.0005, a float weight, and
\* a speed of -0.0.
RoundingRecords ==
    {SquareBelowHeight,
     LargeQuotient,
     <<"WLK", <<int(26000), FloatLiteral(13, 10), int(75), int(169)>> >>,
     <<"WLK", <<int(3613), int(1), int(75), TieHeight>> >>,
     <<"RUN", <<int(9000), FloatLiteral(25, 10000), int(75)>> >>,
     <<"RUN", <<int(9000), FloatLiteral(5, 10000), int(75)>> >>,
     <<"WLK", <<int(9000), int(3), FloatLiteral(703, 10), int(180)>> >>,
     <<"RUN", <<int(0), int(-1), int(75)>> >>}

\* Records whose data has the arity of the class their code selects.
ArityRecords ==
    {<<"RUN", b>> : b \in RunData} \cup {<<"WLK", b>> : b \in WlkData}
        \cup {<<"SWM", b>> : b \in SwmData}
        \cup {SamplePackages[k] : k \in 1..3} \cup RoundingRecords

\* Records whose data has another arity.
MisfitRecords ==
    {<<"RUN", <<int(15000), int(1)>> >>,
     <<"WLK", SamplePackages[2][2]>>,
     <<"SWM", SamplePackages[3][2]>>,
     <<"RUN", SamplePackages[1][2]>>}

UnknownCodes == {"XYZ", "BIKE", "swm", "Running", ""}
UnknownRecords ==
    {<<c, b>> : c \in UnknownCodes,
                b \in {<<>>, SamplePackages[2][2],
                       <<int(15000), int(0), int(75)>>}}

AllRecords == ArityRecords \cup MisfitRecords \cup UnknownRecords

\* The script's own list is SamplePackages.  The driver is run on every list
\* of at most MaxPackages records drawn from these: the three records of
\* the script and records that fail in each of the ways a record can.
DriverRecords ==
    {SamplePackages[1], SamplePackages[2], SamplePackages[3],
     <<"RUN", <<int(15000), int(0), int(75)>> >>,
     <<"RUN", <<int(15000), int(1)>> >>,
     <<"XYZ", SamplePackages[2][2]>>}

PackageLists == UNION {[1..k -> DriverRecords] : k \in 0..MaxPackages}

Classes == {"Training", "Running", "SportsWalking", "Swimming"}
Methods ==
    {"get_distance", "get_mean_speed", "get_spent_calories",
     "show_training_info"}

----------------------------------------------------------------------------
(* State machine *)

NoTraining == [cls |-> "None"]
NoPackage == <<"", <<>> >>
NoCall == [method |-> "none"]
NoException == [exc |-> "none", arg |-> "", at |-> "none"]

\* The exception of result r, left uncaught by the caller of `at`.
Uncaught(r, at) == [exc |-> r.exc, arg |-> r.arg, at |-> at]

Init ==
    /\ name \in {"__main__", "homework"}
    /\ packages \in (IF name = "__main__" THEN PackageLists ELSE {<< >>})
    /\ i = 1
    /\ pc = (IF name = "__main__" THEN "loop" ELSE "imported")
    /\ training = NoTraining
    /\ package = NoPackage
    /\ origin = "none"
    /\ ret = NoCall
    /\ output = << >>
    /\ exc = NoException

\* training = read_package(...), r being the result of the call; `next` is
\* where control goes when it returns
Assign(r, next) ==
    /\ origin' = "read_package"
    /\ IF Raised(r)
       THEN /\ pc' = "raised"
            /\ exc' = Uncaught(r, "read_package")
            /\ UNCHANGED training
       ELSE /\ pc' = next
            /\ training' = r.val
            /\ UNCHANGED exc

\* Mutant: a record whose read_package raises is skipped, and the loop
\* goes on with the next record.
ReadPackage_skip ==
    /\ pc = "loop"
    /\ i <= Len(packages)
    /\ package' = packages[i]
    /\ origin' = "read_package"
    /\ IF Raised(read_package(packages[i][1], packages[i][2]))
       THEN /\ pc' = "loop"
            /\ i' = i + 1
            /\ UNCHANGED training
       ELSE /\ pc' = "main"
            /\ training' = read_package(packages[i][1], packages[i][2]).val
            /\ UNCHANGED i
    /\ UNCHANGED <<name, packages, ret, output, exc>>

\* for workout_type, data in packages:
\*     training = read_package(workout_type, data)
ReadPackage ==
    /\ pc = "loop"
    /\ i <= Len(packages)
    /\ package' = packages[i]
    /\ Assign(read_package(packages[i][1], packages[i][2]), "main")
    /\ UNCHANGED <<name, packages, i, ret, output>>

\* the driver's main(training) has returned r, or raised
Printed(r) ==
    IF Raised(r)
    THEN /\ pc' = "raised"
         /\ exc' = Uncaught(r, "main")
         /\ UNCHANGED <<i, output>>
    ELSE /\ pc' = "loop"
         /\ output' = r.val
         /\ i' = i + 1
         /\ UNCHANGED exc

\*     main(training), then on to the next record
Main ==
    /\ pc = "main"
    /\ \E libm \in PowRoundings : Printed(main(training, output, libm))
    /\ UNCHANGED <<name, packages, training, package, origin, ret>>

\* the for loop is exhausted
Exit ==
    /\ pc = "loop"
    /\ i > Len(packages)
    /\ pc' = "done"
    /\ UNCHANGED <<name, packages, i, training, package, origin, ret, output, exc>>

\* An importing caller calls read_package(workout_type, data).
CallReadPackage ==
    /\ pc = "imported"
    /\ \E rec \in AllRecords :
          /\ package' = rec
          /\ Assign(read_package(rec[1], rec[2]), "constructed")
    /\ UNCHANGED <<name, packages, i, ret, output>>

\* training = cls(...), r being the result of the call of the class
Constructed(r) ==
    /\ origin' = "direct"
    /\ IF Raised(r)
       THEN /\ pc' = "raised"
            /\ exc' = Uncaught(r, "class")
            /\ UNCHANGED training
       ELSE /\ pc' = "constructed"
            /\ training' = r.val
            /\ UNCHANGED exc

\* An importing caller constructs an object of a class of the module itself.
CallConstructor ==
    /\ pc = "imported"
    /\ \E cls \in Classes, rec \in AllRecords :
          /\ package' = <<cls, rec[2]>>
          /\ Constructed(Construct(cls, rec[2]))
    /\ UNCHANGED <<name, packages, i, ret, output>>

Invoke(method, self, out, libm) ==
    CASE method = "get_distance" -> get_distance(self)
      [] method = "get_mean_speed" -> get_mean_speed(self)
      [] method = "get_spent_calories" -> get_spent_calories(self, libm)
      [] method = "show_training_info" -> show_training_info(self, libm)
      [] method = "main" -> main(self, out, libm)

\* the call of method has returned r, or raised
Returned(method, r) ==
    /\ ret' = [method |-> method, res |-> r]
    /\ pc' = (IF Raised(r) THEN "raised" ELSE "returned")
    /\ exc' = (IF Raised(r) THEN Uncaught(r, method) ELSE exc)
    /\ output' = (IF method = "main" /\ ~Raised(r) THEN r.val ELSE output)

\* An importing caller calls a method of the object it holds, or main on it.
CallMethod ==
    /\ pc = "constructed"
    /\ \E method \in Methods \cup {"main"}, libm \in PowRoundings :
          Returned(method, Invoke(method, training, output, libm))
    /\ UNCHANGED <<name, packages, i, training, package, origin>>

Next ==
    \/ ReadPackage
    \/ Main
    \/ Exit
    \/ CallReadPackage
    \/ CallConstructor
    \/ CallMethod

Spec == Init /\ [][Next]_vars

----------------------------------------------------------------------------
(* Vocabulary of the properties *)

\* The order of numbers, as the properties compare them: x < 0, and a < b
\* on ints and floats.
IsNegative(x) == IF IsInt(x) THEN x.v < 0 ELSE x.s = 1 /\ x.m # <<>>
Less(a, b) ==
    IF IsInt(a) /\ IsInt(b) THEN a.v < b.v
    ELSE float_lt(float(a), float(b))

SupportedCodes == {"SWM", "RUN", "WLK"}

\* The class each code stands for, and the number of values it takes.
VariantOf(code) ==
    CASE code = "SWM" -> "Swimming"
      [] code = "RUN" -> "Running"
      [] code = "WLK" -> "SportsWalking"
ArityOf(code) ==
    CASE code = "SWM" -> 5
      [] code = "RUN" -> 3
      [] code = "WLK" -> 4

\* A record with a supported code and data of the arity of its code.
Fits(rec) == rec[1] \in SupportedCodes /\ Len(rec[2]) = ArityOf(rec[1])

\* A fitting record with a nonzero duration and, for "WLK", a nonzero height.
Computable(rec) ==
    /\ Fits(rec)
    /\ ~IsZero(rec[2][2])
    /\ (rec[1] = "WLK" => ~IsZero(rec[2][4]))

\* read_package has been called with `package`, the last call to construct.
ReadCalled == origin = "read_package"
ReadRaised == ReadCalled /\ pc = "raised" /\ exc.at = "read_package"
\* read_package(package) has returned `training`.
ReadReturned == ReadCalled /\ ~ReadRaised

\* An importing caller has called `method` on the object read_package
\* returned for `package`; ret.res is the outcome.
Called(method) == name = "homework" /\ ReadCalled /\ ret.method = method

----------------------------------------------------------------------------
(* C1 *)

\* C1 as stated: for every record with a supported code and data of the
\* matching arity, read_package returns an object of the class the code
\* stands for, and show_training_info on it yields a message whose
\* training_type is the class name and whose duration is the stored one.
C1_Original ==
    /\ (ReadCalled /\ Fits(package)) =>
          (~ReadRaised /\ training.cls = VariantOf(package[1]))
    /\ (Called("show_training_info") /\ Fits(package)) =>
          /\ ~Raised(ret.res)
          /\ ret.res.val.training_type = VariantOf(package[1])
          /\ ret.res.val.duration = package[2][2]

\* C1, amended: read_package returns an object of the class fixed by
\* SWM -> Swimming, RUN -> Running, WLK -> SportsWalking for every record of
\* matching arity; show_training_info on it yields a message with that class
\* name as training_type and the stored duration whenever the duration is
\* not zero and, for WLK, the height is not zero.
C1_Mapping ==
    /\ (ReadCalled /\ Fits(package)) =>
          (~ReadRaised /\ training.cls = VariantOf(package[1]))
    /\ (Called("show_training_info") /\ Computable(package)) =>
          /\ ~Raised(ret.res)
          /\ ret.res.val.training_type = VariantOf(package[1])
          /\ ret.res.val.duration = package[2][2]

C1_Witness ==
    /\ Called("show_training_info")
    /\ package[1] = "WLK"
    /\ ~Raised(ret.res)
    /\ ret.res.val.training_type = "SportsWalking"
    /\ ret.res.val.duration = FloatLiteral(1, 2)

----------------------------------------------------------------------------
(* C2 *)

\* C2: for a code that is not SWM, RUN or WLK and any data, read_package
\* raises ValueError carrying the code and returns nothing: the exception is
\* left uncaught, the object held and the lines printed stay as they were.
C2_State ==
    (ReadCalled /\ package[1] \notin SupportedCodes) =>
        /\ pc = "raised"
        /\ exc = [exc |-> "ValueError", arg |-> package[1],
                  at |-> "read_package"]
        /\ ret = NoCall
        /\ Len(output) = i - 1
        /\ (name = "homework" => training = NoTraining)

\* A step that calls read_package(package').
ReadStep ==
    /\ pc \in {"loop", "imported"}
    /\ pc' \in {"main", "constructed", "raised"}
    /\ origin' = "read_package"

C2_Step ==
    (ReadStep /\ package'[1] \notin SupportedCodes) =>
        (pc' = "raised" /\ training' = training /\ output' = output)

\* C2: both parts, in every state and at every call of read_package with
\* an unsupported code.
C2_Unsupported == []C2_State /\ [][C2_Step]_vars

C2_Witness ==
    /\ name = "__main__"
    /\ i = 2
    /\ ReadRaised
    /\ package[1] = "XYZ"
    /\ exc.exc = "ValueError"
    /\ training.cls = "Swimming"

----------------------------------------------------------------------------
(* C3 *)

\* C3 as stated: for a record of the arity its code requires (or with an
\* unknown code), read_package followed by show_training_info succeeds or
\* fails with ValueError or NotImplementedError, and with nothing else,
\* a zero duration or height included.
C3_Original ==
    (ReadCalled /\ (Fits(package) \/ package[1] \notin SupportedCodes)
        /\ pc = "raised") =>
        exc.exc \in {"ValueError", "NotImplementedError"}

\* C3, amended: for such a record read_package followed by
\* show_training_info (or main) fails with ValueError exactly when the code
\* is unknown, fails with ZeroDivisionError exactly when the code is
\* supported and the duration is zero or, for WLK, the height is zero, and
\* succeeds otherwise; NotImplementedError is not raised.
C3_ErrorKinds ==
    /\ (ReadCalled /\ package[1] \notin SupportedCodes) =>
          (ReadRaised /\ exc.exc = "ValueError")
    /\ (ReadCalled /\ Fits(package)) => ~ReadRaised
    /\ (Fits(package) /\ (Called("show_training_info") \/ Called("main"))) =>
          IF Computable(package) THEN ~Raised(ret.res) /\ pc = "returned"
          ELSE /\ ret.res.exc = "ZeroDivisionError"
               /\ pc = "raised"
               /\ exc.exc = "ZeroDivisionError"
    /\ (name = "__main__" /\ Fits(package) /\ pc = "raised") =>
          (exc.exc = "ZeroDivisionError" /\ exc.at = "main"
              /\ ~Computable(package))
    /\ (name = "__main__" /\ pc = "main") => Fits(package)
    /\ (name = "__main__" /\ pc = "loop" /\ i > 1) => Computable(packages[i - 1])

C3_Witness ==
    /\ Called("show_training_info")
    /\ package[1] = "WLK"
    /\ ~IsZero(package[2][2])
    /\ IsZero(package[2][4])
    /\ pc = "raised"
    /\ exc.exc = "ZeroDivisionError"

----------------------------------------------------------------------------
(* C4 *)

\* The speed the pool gives: length_pool * count_pool / 1000 / duration.
PoolSpeed(data) ==
    TrueDiv(TrueDiv(Mul(data[4], data[5]), int(1000)), data[2])

\* C4 as stated: for every record with a supported code and matching arity,
\* get_distance() >= 0 and get_mean_speed() is get_distance() / duration
\* for Running and SportsWalking and the pool's speed for Swimming.
C4_Original ==
    /\ (Called("get_distance") /\ Fits(package)) =>
          (~Raised(ret.res) /\ ~IsNegative(ret.res.val))
    /\ (Called("get_mean_speed") /\ Fits(package)) =>
          /\ ~Raised(ret.res)
          /\ ret.res.val =
                IF package[1] = "SWM" THEN PoolSpeed(package[2])
                ELSE TrueDiv(get_distance(training).val, package[2][2])

\* C4, amended: get_distance() >= 0 when the action count is not negative;
\* when the duration is not zero, get_mean_speed() is get_distance() /
\* duration for Running and SportsWalking and length_pool * count_pool /
\* 1000 / duration for Swimming, whatever the action count; when the
\* duration is zero, get_mean_speed() raises ZeroDivisionError.  The
\* arguments are ints and floats on which no operation overflows.
C4_DistanceSpeed ==
    /\ (Called("get_distance") /\ Fits(package)) =>
          /\ ~Raised(ret.res)
          /\ (~IsNegative(package[2][1]) => ~IsNegative(ret.res.val))
    /\ (Called("get_mean_speed") /\ Fits(package)
            /\ ~IsZero(package[2][2])) =>
          /\ ~Raised(ret.res)
          /\ ret.res.val =
                IF package[1] = "SWM" THEN PoolSpeed(package[2])
                ELSE TrueDiv(get_distance(training).val, package[2][2])
    /\ (Called("get_mean_speed") /\ Fits(package)
            /\ IsZero(package[2][2])) =>
          /\ ret.res.exc = "ZeroDivisionError"
          /\ pc = "raised"
          /\ exc.exc = "ZeroDivisionError"
          /\ exc.at = "get_mean_speed"

C4_Witness ==
    /\ Called("get_mean_speed")
    /\ package[1] = "SWM"
    /\ package[2][1] = int(9000)
    /\ package[2][2] = FloatLiteral(1, 2)
    /\ ~Raised(ret.res)
    /\ ret.res.val = FromInt(2)

----------------------------------------------------------------------------
(* C5 *)

\* (18 * speed - 20) * weight / 1000 * (duration * 60)
RunningFormula(speed, weight, duration) ==
    Mul(TrueDiv(Mul(Sub(Mul(int(18), speed), int(20)), weight), int(1000)),
        Mul(duration, int(60)))

\* C5 as stated: ("RUN", [15000, 1, 75]) gives distance 9.750, mean speed
\* 9.750 and calories 644.625.
C5_Original ==
    (Called("show_training_info") /\ package = SamplePackages[2]) =>
        /\ ~Raised(ret.res)
        /\ Format3(ret.res.val.distance) = "9.750"
        /\ Format3(ret.res.val.speed) = "9.750"
        /\ Format3(ret.res.val.calories) = "644.625"

\* C5, amended: Running.get_spent_calories is (18 * mean_speed - 20) *
\* weight / 1000 * (duration * 60), and ("RUN", [15000, 1, 75]) gives
\* distance 9.750, mean speed 9.750 and calories 699.750.
C5_Running ==
    /\ (Called("show_training_info") /\ package = SamplePackages[2]) =>
          /\ ~Raised(ret.res)
          /\ Format3(ret.res.val.distance) = "9.750"
          /\ Format3(ret.res.val.speed) = "9.750"
          /\ ret.res.val.calories = FloatLiteral(69975, 100)
          /\ Format3(ret.res.val.calories) = "699.750"
    /\ (Called("get_spent_calories") /\ Computable(package)
            /\ package[1] = "RUN") =>
          /\ ~Raised(ret.res)
          /\ ret.res.val =
                RunningFormula(get_mean_speed(training).val, package[2][3],
                               package[2][2])

C5_Witness ==
    /\ Called("show_training_info")
    /\ package = SamplePackages[2]
    /\ ~Raised(ret.res)
    /\ Format3(ret.res.val.calories) = "699.750"

----------------------------------------------------------------------------
(* C6 *)

\* (0.035 * weight + (speed ** 2 // height) * 0.029 * weight)
\*     * (duration * 60), libm being the way pow rounds
WalkingFormula(speed, weight, height, duration, libm) ==
    Mul(Add(Mul(FloatLiteral(35, 1000), weight),
            Mul(Mul(FloorDiv(Pow(speed, libm), height),
                    FloatLiteral(29, 1000)),
                weight)),
        Mul(duration, int(60)))

\* (0.035 * weight) * (duration * 60), the formula without its second term
WalkingBase(weight, duration) ==
    Mul(Mul(FloatLiteral(35, 1000), weight), Mul(duration, int(60)))

\* 0.035 * weight * duration * 60, multiplied from left to right
WalkingFlat(weight, duration) ==
    Mul(Mul(Mul(FloatLiteral(35, 1000), weight), duration), int(60))

\* The result r agrees with the formula for the square that pow returns as
\* libm says, and is the first term alone when that square is below the
\* height.
WalkingAgrees(r, speed, data, libm) ==
    /\ r = WalkingFormula(speed, data[3], data[4], data[2], libm)
    /\ Less(Pow(speed, libm), data[4]) =>
          /\ r = WalkingBase(data[3], data[2])
          /\ Format3(r) = Format3(WalkingFlat(data[3], data[2]))

\* C6: for a SportsWalking object with height > 0 and duration > 0,
\* get_spent_calories is (0.035 * weight + floor(mean_speed^2 / height) *
\* 0.029 * weight) * (duration * 60), the square floor-divided by the
\* height; when mean_speed^2 < height it is 0.035 * weight * duration * 60,
\* 157.500 for ("WLK", [9000, 1, 75, 180]).  The quantities are the floats
\* the program computes: the square is the one pow returns, the product is
\* grouped as (0.035 * weight) * (duration * 60), and the product taken
\* from left to right renders to the same three decimals.  A square one
\* rounding step below the height, as 3.9 ** 2 below 15.21, counts as
\* below it, and the floor division is the // of Python, 4450636125000000.0
\* for the 1377 steps in 1e-09 hours whose exact quotient is
\* 4450636125000001.4.
C6_Walking ==
    /\ (Called("get_spent_calories") /\ Fits(package) /\ package[1] = "WLK"
            /\ Less(int(0), package[2][4]) /\ Less(int(0), package[2][2])) =>
          /\ ~Raised(ret.res)
          /\ \E libm \in PowRoundings :
                WalkingAgrees(ret.res.val, get_mean_speed(training).val,
                              package[2], libm)
    /\ (Called("get_spent_calories") /\ package = SamplePackages[3]) =>
          /\ ret.res.val = WalkingBase(int(75), int(1))
          /\ Format3(ret.res.val) = "157.500"
    /\ (Called("get_spent_calories") /\ package = SquareBelowHeight) =>
          /\ ret.res.val = WalkingBase(int(75), int(1))
          /\ Format3(ret.res.val) = "157.500"
    /\ (Called("get_spent_calories") /\ package = LargeQuotient) =>
          /\ \A libm \in PowRoundings :
                FloorDiv(Pow(get_mean_speed(training).val, libm), int(180)) =
                    Mul(FromInt(35605089), int(125000000))
          /\ Format3(ret.res.val) = "580808014.313"

C6_Witness ==
    /\ Called("get_spent_calories")
    /\ package = SamplePackages[3]
    /\ ~Raised(ret.res)
    /\ Format3(ret.res.val) = "157.500"

----------------------------------------------------------------------------
(* C7 *)

\* C7: ("SWM", [720, 1, 80, 25, 40]) gives mean speed 1.000, calories
\* 336.000 and distance 0.994: Swimming takes 1.38 as the length of a step,
\* its speed from the pool and its calories as (mean_speed + 1.1) * 2 *
\* weight.
C7_Swimming ==
    /\ (Called("show_training_info") /\ package = SamplePackages[1]) =>
          /\ ~Raised(ret.res)
          /\ ret.res.val.speed = FromInt(1)
          /\ Format3(ret.res.val.speed) = "1.000"
          /\ ret.res.val.calories = FromInt(336)
          /\ Format3(ret.res.val.calories) = "336.000"
          /\ ret.res.val.distance =
                TrueDiv(Mul(int(720), FloatLiteral(138, 100)), int(1000))
          /\ Format3(ret.res.val.distance) = "0.994"
    /\ (Called("show_training_info") /\ Computable(package)
            /\ package[1] = "SWM") =>
          /\ ~Raised(ret.res)
          /\ ret.res.val.distance =
                TrueDiv(Mul(package[2][1], FloatLiteral(138, 100)), int(1000))
          /\ ret.res.val.speed = PoolSpeed(package[2])
          /\ ret.res.val.calories =
                Mul(Mul(Add(PoolSpeed(package[2]), FloatLiteral(11, 10)),
                        int(2)),
                    package[2][3])

C7_Witness ==
    /\ Called("show_training_info")
    /\ package = SamplePackages[1]
    /\ ~Raised(ret.res)
    /\ Format3(ret.res.val.distance) = "0.994"
    /\ ret.res.val.calories = FromInt(336)

----------------------------------------------------------------------------
(* C8 *)

\* The line of a computable record, libm being the way pow rounds.
LineOf(rec, libm) ==
    get_message(
        show_training_info(read_package(rec[1], rec[2]).val, libm).val)

\* The computable records the driver is given, each with its line.
DriverLines ==
    {<<rec, LineOf(rec, libm)>> :
        rec \in {r \in DriverRecords : Computable(r)}, libm \in PowRoundings}

AllComputable(pk) == \A k \in 1..Len(pk) : Computable(pk[k])

\* C8: given a list of n records with supported codes and valid arguments,
\* the driver prints one line per record in the order of the list: after k
\* records the output is the lines of the first k records, and at the end it
\* is n lines.
C8_OneLinePerRecord ==
    (name = "__main__" /\ AllComputable(packages)) =>
        /\ pc # "raised"
        /\ Len(output) = i - 1
        /\ Len(output) <= Len(packages)
        /\ \A k \in 1..Len(output) : <<packages[k], output[k]>> \in DriverLines
        /\ pc = "done" => Len(output) = Len(packages)
        /\ (pc = "done" /\ packages = SamplePackages) =>
              output =
                << <<"Swimming", "1.000", "0.994", "1.000", "336.000">>,
                   <<"Running", "1.000", "9.750", "9.750", "699.750">>,
                   <<"SportsWalking", "1.000", "5.850", "5.850", "157.500">> >>

C8_Witness ==
    /\ name = "__main__"
    /\ packages = SamplePackages
    /\ pc = "done"
    /\ Len(output) = 3

----------------------------------------------------------------------------
(* C9 *)

\* C9: NotImplementedError cannot be reached through read_package: an object
\* it returns is a Running, a SportsWalking or a Swimming, and neither
\* get_spent_calories nor show_training_info on it raises that error; the
\* error is raised only on a Training constructed directly, where
\* get_spent_calories does raise it.
C9_NotImplemented ==
    /\ ReadReturned =>
          training.cls \in {"Running", "SportsWalking", "Swimming"}
    /\ ReadCalled => exc.exc # "NotImplementedError"
    /\ (Called("get_spent_calories") \/ Called("show_training_info")
            \/ Called("main")) =>
          ret.res.exc # "NotImplementedError"
    /\ exc.exc = "NotImplementedError" =>
          /\ origin = "direct"
          /\ training.cls = "Training"
          /\ exc.at \in {"get_spent_calories", "show_training_info", "main"}
    /\ (origin = "direct" /\ training.cls = "Training"
            /\ ret.method = "get_spent_calories") =>
          ret.res.exc = "NotImplementedError"

C9_Witness ==
    /\ Called("get_spent_calories")
    /\ package[1] = "RUN"
    /\ ~Raised(ret.res)
    /\ training.cls = "Running"

----------------------------------------------------------------------------
(* C10 *)

\* out is the lines of the computable records of a list, in the order of
\* the list.
LinesOf(pk, out) ==
    /\ Len(out) = Len(SelectSeq(pk, Computable))
    /\ \A k \in 1..Len(out) :
          <<SelectSeq(pk, Computable)[k], out[k]>> \in DriverLines

\* C10 as stated: the driver handles each record on its own; a record that
\* fails stops that record only, and every valid record of the list, those
\* after a failing one included, has its line printed.
C10_Original ==
    (name = "__main__" /\ pc \in {"done", "raised"}) =>
        LinesOf(packages, output)

\* C10, amended: the driver handles the records in order and stops at the
\* first record that fails: its exception is left uncaught, the lines of the
\* records before it are printed, and nothing is printed for it or for any
\* record after it.
C10_StopsAtFirstFailure ==
    name = "__main__" =>
        /\ i - 1 <= Len(packages)
        /\ Len(output) = i - 1
        /\ \A k \in 1..(i - 1) :
              /\ Computable(packages[k])
              /\ <<packages[k], output[k]>> \in DriverLines
        /\ pc = "raised" =>
              /\ i <= Len(packages)
              /\ ~Computable(packages[i])
              /\ exc.exc # "none"
              /\ ~ENABLED Next
        /\ pc = "done" => i = Len(packages) + 1 /\ exc = NoException

C10_Witness ==
    /\ name = "__main__"
    /\ pc = "raised"
    /\ Len(packages) = 3
    /\ i = 2
    /\ packages[2][1] = "XYZ"
    /\ Computable(packages[3])
    /\ Len(output) = 1

=============================================================================
